---- MODULE Spec2Model ----
(***************************************************************************)
(* A model of rt-summer's render thread pool (src/render_threads.rs), its  *)
(* tile scheduler and film, and of the BVH (src/bvh.rs): build, flatten    *)
(* and the iterative nearest-hit traversal.                                *)
(*                                                                         *)
(* Two state machines share the module.  Spec / FairSpec run the pool: one *)
(* coordinating thread (render_once, drop) and numThreads workers          *)
(* (render).  SpecBvh builds a BVH over a scene and runs Bvh::intersect    *)
(* one loop iteration per step.  Each machine leaves the other's variables *)
(* unchanged.                                                              *)
(***************************************************************************)
EXTENDS Integers, Sequences, FiniteSets, TLC

VARIABLES
    \* ---- FilmRenderState (render_threads.rs:110-115)
    index,              \* the atomic cursor
    width, height,
    max_index,
    \* ---- RenderThreads (render_threads.rs:22-27) and the coordinating thread
    numThreads,         \* cmdargs.num_threads = threads.len()
    mpc,                \* where the coordinating thread is
    completed_threads,  \* render_once's local counter
    joined,             \* how many handles Drop has joined
    start_notify_bus,   \* per reader: the broadcast messages not yet received
    completion,         \* the bounded completion channel (sender ids, for history)
    frames,             \* render_once() calls that returned
    \* ---- the workers (render, render_threads.rs:153-228)
    pc,                 \* each worker's position
    tile,               \* (px, py) of the tile a worker holds
    off,                \* the worker's inner loop counter, px - tile px
    sample,             \* the worker's private sample counter
    \* ---- Film (film.rs:7-13)
    buffer,             \* cell -> number of contributions accumulated
    \* ---- history of the current frame (not program state)
    handed,             \* the indices next_index returned as Some, in order
    nones,              \* how often next_index returned None since the last reset
    written,            \* cell -> the workers that accumulated into it this frame
    acks,               \* the senders of the acknowledgments render_once received
    stopSent,           \* Drop has broadcast Stop
    \* ---- Bvh (bvh.rs:11-13) and one Bvh::intersect call (bvh.rs:61-127)
    scene,              \* the primitives handed to Bvh::build, in input order
    primitives,         \* the primitive array after the build reordered it
    nodes,              \* Bvh.nodes, the linear nodes
    ray,                \* the ray of the call
    tmax_arg,           \* the tmax the caller passed
    tmax,               \* the local tmax
    current_node_index,
    to_visit_offset,
    nodes_to_visit,
    closest_hitinfo,    \* <<>> for None, <<hit>> for Some(hit)
    bpc,                \* where the BVH run is
    visited,            \* history: the values current_node_index took in the call
    \* ---- one Bvh::sort_by_indices call (bvh.rs:44-59)
    sort_input,         \* the call's arguments, <<data, indices>>
    sort_data,          \* data, permuted in place
    sort_indices,       \* indices, the call's own Vec
    sort_idx,           \* idx of the for loop
    sort_current_idx,   \* current_idx of the inner loop
    sort_pc,            \* where the call is
    \* ---- one AABB::union_aabb call (geometry.rs:138-142)
    box_a, box_b,       \* self and b of the call
    box_c,              \* a third box, for a second call
    box_u,              \* the box returned
    upc,                \* where the call is
    \* ---- one Scene::init call (scene.rs:46-143)
    scene_desc,         \* scene_desc.shapes
    lights,             \* the lights Vec
    fixup_i,            \* i of the fixup loop
    spc                 \* where the call is

poolVars == <<index, width, height, max_index, numThreads, mpc, completed_threads,
              joined, start_notify_bus, completion, frames, pc, tile, off, sample,
              buffer, handed, nones, written, acks, stopSent>>

bvhVars == <<scene, primitives, nodes, ray, tmax_arg, tmax, current_node_index,
             to_visit_offset, nodes_to_visit, closest_hitinfo, bpc, visited>>

sortVars == <<sort_input, sort_data, sort_indices, sort_idx, sort_current_idx, sort_pc>>

unionVars == <<box_a, box_b, box_c, box_u, upc>>

sceneVars == <<scene_desc, lights, fixup_i, spc>>

vars == <<poolVars, bvhVars, sortVars, unionVars, sceneVars>>

\* ------------------------------------------------------------------ bounds
MaxThreads == 2
MaxFrames == 2
MaxPrims == 3

\* ------------------------------------------------------- program constants
TILE_SIZE == 8

\* The images of the pool runs, <<width, height>>: 8 pixels (no tile is handed
\* out), 9 and 16 (one tile), 20 (two tiles, width not a multiple of the tile
\* size), 25 (three tiles).
Images == {<<4, 2>>, <<3, 3>>, <<4, 4>>, <<5, 4>>, <<5, 5>>}

Workers == 1..numThreads
Cells == 0..(width * height - 1)

\* ---------------------------------------------------------------- messages
\* ThreadMsg (render_threads.rs:83-87)
Render == "Render"
Stop == "Stop"

\* Bus::new(cmdargs.num_threads): broadcast blocks while some reader is a full
\* ring behind.  mpsc::sync_channel(cmdargs.num_threads): send blocks while the
\* channel holds that many messages.
BusCapacity == numThreads
ChannelCapacity == numThreads

BusHasRoom == \A w \in Workers : Len(start_notify_bus[w]) < BusCapacity

Broadcast(msg) == [w \in Workers |-> Append(start_notify_bus[w], msg)]

\* ------------------------------------------------------- FilmRenderState
\* The number of usize values.  The code's 2^64 is beyond the integers of the
\* model checker; this stand-in is, like 2^64, above every index, cursor value
\* and pixel count of the runs, so a wrapped difference compares as in the code.
UsizeRange == 1073741824

\* FilmRenderState::new: max_index = width * height - TILE_SIZE, in usize.
\* Without overflow checks the subtraction wraps.
MaxIndexOf(w, h) == (w * h - TILE_SIZE) % UsizeRange

\* AtomicUsize::fetch_add(TILE_SIZE): the cursor after the call
FetchAddHalfTile(cur) == cur + TILE_SIZE \div 2
FetchAddWrapAtMax(cur) == (cur + TILE_SIZE) % (max_index + 1)
FetchAdd(cur) == cur + TILE_SIZE

\* next_index: the value read is handed out unless it reached max_index
IsExhaustedStrict(i) == i > max_index
IsExhausted(i) == i >= max_index

\* next_xy_coords: row-major coordinates of index i
XCoordInTile(i) == i % TILE_SIZE
XCoord(i) == i % width
YCoord(i) == i \div width

\* Film::set / get_xyz: the buffer index of (x, y)
BufferIndexByHeight(x, y) == height * y + x
BufferIndex(x, y) == width * y + x

\* Film::accumulate: get_xyz, then set with current + val.  The model counts
\* the contributions of a cell.
SetOnly(buf, cell) == [buf EXCEPT ![cell] = 1]
Accumulate(buf, cell) == [buf EXCEPT ![cell] = @ + 1]

\* ------------------------------------------------------------------- Init
NoTile == <<0, 0>>

InitPoolOf(images) ==
    /\ \E img \in images :
          /\ width = img[1]
          /\ height = img[2]
          /\ max_index = MaxIndexOf(img[1], img[2])
          /\ buffer = [c \in 0..(img[1] * img[2] - 1) |-> 0]
          /\ written = [c \in 0..(img[1] * img[2] - 1) |-> <<>>]
    /\ numThreads \in 1..MaxThreads
    /\ index = 0
    /\ mpc = "idle"
    /\ completed_threads = 0
    /\ joined = 0
    /\ start_notify_bus = [w \in 1..numThreads |-> <<>>]
    /\ completion = <<>>
    /\ frames = 0
    /\ pc = [w \in 1..numThreads |-> "recv"]
    /\ tile = [w \in 1..numThreads |-> NoTile]
    /\ off = [w \in 1..numThreads |-> 0]
    /\ sample = [w \in 1..numThreads |-> 0]
    /\ handed = <<>>
    /\ nones = 0
    /\ acks = <<>>
    /\ stopSent = FALSE

InitPool == InitPoolOf(Images)

\* ------------------------------------------ the coordinating thread
\* render_once, line 72: self.render_state.reset()
RenderOnceReset ==
    /\ mpc = "idle"
    /\ frames < MaxFrames
    /\ index' = 0
    /\ mpc' = "broadcast"
    /\ handed' = <<>>
    /\ nones' = 0
    /\ written' = [c \in Cells |-> <<>>]
    /\ acks' = <<>>
    /\ UNCHANGED <<width, height, max_index, numThreads, completed_threads, joined,
                   start_notify_bus, completion, frames, pc, tile, off, sample,
                   buffer, stopSent>>
    /\ UNCHANGED bvhVars
    /\ UNCHANGED sortVars
    /\ UNCHANGED unionVars
    /\ UNCHANGED sceneVars

\* render_once, lines 73-75: broadcast(Render); completed_threads = 0
RenderOnceBroadcast ==
    /\ mpc = "broadcast"
    /\ BusHasRoom
    /\ start_notify_bus' = Broadcast(Render)
    /\ completed_threads' = 0
    /\ mpc' = "collect"
    /\ UNCHANGED <<index, width, height, max_index, numThreads, joined, completion,
                   frames, pc, tile, off, sample, buffer, handed, nones, written,
                   acks, stopSent>>
    /\ UNCHANGED bvhVars
    /\ UNCHANGED sortVars
    /\ UNCHANGED unionVars
    /\ UNCHANGED sceneVars

\* render_once, line 76: the loop runs until this holds
AllButOneCompleted(n) == n = numThreads - 1
AllAndOneMoreCompleted(n) == n = numThreads + 1
AllCompleted(n) == n = numThreads

\* render_once, lines 76-80: one completion_recv.recv(); the call returns when
\* the counter reaches threads.len()
RenderOnceRecv ==
    /\ mpc = "collect"
    /\ ~AllCompleted(completed_threads)
    /\ completion # <<>>
    /\ completion' = Tail(completion)
    /\ acks' = Append(acks, Head(completion))
    /\ completed_threads' = completed_threads + 1
    /\ IF AllCompleted(completed_threads + 1)
          THEN /\ mpc' = "idle"
               /\ frames' = frames + 1
          ELSE UNCHANGED <<mpc, frames>>
    /\ UNCHANGED <<index, width, height, max_index, numThreads, joined,
                   start_notify_bus, pc, tile, off, sample, buffer, handed, nones,
                   written, stopSent>>
    /\ UNCHANGED bvhVars
    /\ UNCHANGED sortVars
    /\ UNCHANGED unionVars
    /\ UNCHANGED sceneVars

\* Drop, line 91: broadcast(Stop)
DropBroadcast ==
    /\ mpc = "idle"
    /\ BusHasRoom
    /\ start_notify_bus' = Broadcast(Stop)
    /\ stopSent' = TRUE
    /\ joined' = 0
    /\ mpc' = "join"
    /\ UNCHANGED <<index, width, height, max_index, numThreads, completed_threads,
                   completion, frames, pc, tile, off, sample, buffer, handed, nones,
                   written, acks>>
    /\ UNCHANGED bvhVars
    /\ UNCHANGED sortVars
    /\ UNCHANGED unionVars
    /\ UNCHANGED sceneVars

\* thread::JoinHandle::join returns once the thread has ended (returned or
\* panicked; the result is discarded by .ok())
HasEndedOrWaits(w) == pc[w] \in {"exit", "panicked", "recv"}
HasEnded(w) == pc[w] \in {"exit", "panicked"}

\* Drop, lines 93-96: join the handles in spawn order
DropJoin ==
    /\ mpc = "join"
    /\ joined < numThreads
    /\ HasEnded(joined + 1)
    /\ joined' = joined + 1
    /\ mpc' = IF joined + 1 = numThreads THEN "dropped" ELSE "join"
    /\ UNCHANGED <<index, width, height, max_index, numThreads, completed_threads,
                   start_notify_bus, completion, frames, pc, tile, off, sample, buffer,
                   handed, nones, written, acks,
                   stopSent>>
    /\ UNCHANGED bvhVars
    /\ UNCHANGED sortVars
    /\ UNCHANGED unionVars
    /\ UNCHANGED sceneVars

\* ------------------------------------------------------------ the workers
\* On Stop the worker returns; on Render it enters the tile loop
AfterMsgIgnoringStop(msg) == "next"
AfterMsg(msg) == IF msg = Stop THEN "exit" ELSE "next"

\* BusReader::recv takes the oldest unread message off the reader's queue
Peek(q) == q
Consume(q) == Tail(q)

\* render, lines 167-173: start_rx.recv(), return on Stop
WorkerRecv(w) ==
    /\ pc[w] = "recv"
    /\ start_notify_bus[w] # <<>>
    /\ start_notify_bus' = [start_notify_bus EXCEPT ![w] = Consume(@)]
    /\ pc' = [pc EXCEPT ![w] = AfterMsg(Head(start_notify_bus[w]))]
    /\ UNCHANGED <<index, width, height, max_index, numThreads, mpc,
                   completed_threads, joined, completion, frames, tile, off, sample,
                   buffer, handed, nones, written, acks,
                   stopSent>>
    /\ UNCHANGED bvhVars
    /\ UNCHANGED sortVars
    /\ UNCHANGED unionVars
    /\ UNCHANGED sceneVars

\* render, line 175: render_state.next_xy_coords() (next_index, lines 129-146)
WorkerNextIndex(w) ==
    /\ pc[w] = "next"
    /\ index' = FetchAdd(index)
    /\ IF IsExhausted(index)
          THEN /\ pc' = [pc EXCEPT ![w] = "send"]
               /\ nones' = nones + 1
               /\ UNCHANGED <<tile, off, handed>>
          ELSE /\ pc' = [pc EXCEPT ![w] = "pixel"]
               /\ tile' = [tile EXCEPT ![w] = <<XCoord(index), YCoord(index)>>]
               /\ off' = [off EXCEPT ![w] = 0]
               /\ handed' = Append(handed, index)
               /\ UNCHANGED nones
    /\ UNCHANGED <<width, height, max_index, numThreads, mpc, completed_threads,
                   joined, start_notify_bus, completion, frames, sample, buffer,
                   written, acks, stopSent>>
    /\ UNCHANGED bvhVars
    /\ UNCHANGED sortVars
    /\ UNCHANGED unionVars
    /\ UNCHANGED sceneVars

\* render, lines 175-176: the pixel of the pass, `px` of the for loop and the
\* `py` of the tile
PixelX(w) == tile[w][1] + off[w]
PixelY(w) == tile[w][2]

\* render, lines 176-219: one pass of `for px in px..(px + TILE_SIZE)`: a ray
\* through (px, py), its radiance, film.accumulate(px, py, xyz).  The slice
\* index of Film::set is bounds-checked: out of range, the worker panics.
WorkerPixel(w) ==
    /\ pc[w] = "pixel"
    /\ LET px == PixelX(w)
           py == PixelY(w)
           cell == BufferIndex(px, py)
       IN IF cell < width * height
             THEN /\ buffer' = Accumulate(buffer, cell)
                  /\ written' = [written EXCEPT ![cell] = Append(@, w)]
                  /\ off' = [off EXCEPT ![w] = @ + 1]
                  /\ pc' = [pc EXCEPT ![w] =
                               IF off[w] + 1 = TILE_SIZE THEN "next" ELSE "pixel"]
             ELSE /\ pc' = [pc EXCEPT ![w] = "panicked"]
                  /\ UNCHANGED <<buffer, written, off>>
    /\ UNCHANGED <<index, width, height, max_index, numThreads, mpc,
                   completed_threads, joined, start_notify_bus, completion, frames,
                   tile, sample, handed, nones, acks, stopSent>>
    /\ UNCHANGED bvhVars
    /\ UNCHANGED sortVars
    /\ UNCHANGED unionVars
    /\ UNCHANGED sceneVars

\* render, line 178 and line 181: the stratum of the worker's samples
STRATA_SQRT == 4
Stratum(w) == sample[w] % (STRATA_SQRT * STRATA_SQRT)

\* render, line 222: sample += 1
SameSample(n) == n
NextSample(n) == n + 1

\* render, lines 222-226: sample += 1; completion_send.send(())
WorkerSend(w) ==
    /\ pc[w] = "send"
    /\ Len(completion) < ChannelCapacity
    /\ completion' = Append(completion, w)
    /\ sample' = [sample EXCEPT ![w] = NextSample(@)]
    /\ pc' = [pc EXCEPT ![w] = "recv"]
    /\ UNCHANGED <<index, width, height, max_index, numThreads, mpc,
                   completed_threads, joined, start_notify_bus, frames, tile, off,
                   buffer, handed, nones, written, acks,
                   stopSent>>
    /\ UNCHANGED bvhVars
    /\ UNCHANGED sortVars
    /\ UNCHANGED unionVars
    /\ UNCHANGED sceneVars

Worker(w) ==
    \/ WorkerRecv(w)
    \/ WorkerNextIndex(w)
    \/ WorkerPixel(w)
    \/ WorkerSend(w)

Coordinator ==
    \/ RenderOnceReset
    \/ RenderOnceBroadcast
    \/ RenderOnceRecv
    \/ DropBroadcast
    \/ DropJoin

\* =================================================================== BVH
\* Coordinates are integers; a Vec3 is <<x, y, z>>.  f32::MAX, f32::INFINITY
\* and NaN are stand-ins beyond every coordinate and distance of the model.
FMax == 100000
FInf == 1000000
NaN == FInf + FInf + 1

\* Axis (geometry.rs:19-23), as the 1-based position of the component
X == 1
Y == 2
Z == 3

Min(a, b) == IF a < b THEN a ELSE b
Max(a, b) == IF a > b THEN a ELSE b

Vec3Min(a, b) == <<Min(a[1], b[1]), Min(a[2], b[2]), Min(a[3], b[3])>>
Vec3Max(a, b) == <<Max(a[1], b[1]), Max(a[2], b[2]), Max(a[3], b[3])>>
Vec3Sub(a, b) == <<a[1] - b[1], a[2] - b[2], a[3] - b[3]>>
Dot(a, b) == a[1] * b[1] + a[2] * b[2] + a[3] * b[3]
Splat(v) == <<v, v, v>>

\* ------------------------------------------------------------------- AABB
AABBNew(a, b) == [min |-> Vec3Min(a, b), max |-> Vec3Max(a, b)]

EMPTY == [min |-> Splat(FMax), max |-> Splat(-FMax)]

union_point(box, b) == [min |-> Vec3Min(box.min, b), max |-> Vec3Max(box.max, b)]

UnionKeepsMax(box, b) == [min |-> Vec3Min(box.min, b.min), max |-> box.max]

union_aabb(box, b) == [min |-> Vec3Min(box.min, b.min), max |-> Vec3Max(box.max, b.max)]

fits_within(box, other) ==
    /\ \A i \in 1..3 : box.min[i] >= other.min[i]
    /\ \A i \in 1..3 : box.max[i] <= other.max[i]

diagonal(box) == Vec3Sub(box.max, box.min)

area(box) ==
    LET d == diagonal(box)
    IN 2 * (d[X] * d[Y] + d[X] * d[Z] + d[Z] * d[Y])

\* AABB::center is (min + max) / 2.  The model carries twice the center, which
\* is an integer; every use below (the centroid box, its largest axis, the
\* median comparison, offset_of's ratio) is unchanged by the common factor.
center(box) == <<box.min[1] + box.max[1], box.min[2] + box.max[2], box.min[3] + box.max[3]>>

AlwaysAxisX(box) == X

max_axis(box) ==
    LET diag == diagonal(box)
    IN IF diag[X] > diag[Y] /\ diag[X] > diag[Z] THEN X
       ELSE IF diag[Y] > diag[Z] THEN Y
       ELSE Z

is_empty(box) == box.min = box.max

\* The box of a sequence of points, folded from EMPTY with union_point
RECURSIVE UnionPoints(_)
UnionPoints(points) ==
    IF points = <<>> THEN EMPTY
    ELSE union_point(UnionPoints(SubSeq(points, 1, Len(points) - 1)), points[Len(points)])

\* The union of a sequence of boxes, folded from EMPTY
RECURSIVE UnionAll(_)
UnionAll(boxes) ==
    IF boxes = <<>> THEN EMPTY
    ELSE union_aabb(UnionAll(SubSeq(boxes, 1, Len(boxes) - 1)), boxes[Len(boxes)])

\* -------------------------------------------------- f32 with inf and NaN
\* (box - orig) * inv_dir, where inv_dir is 1, -1 or +inf (1 / 0.0)
FMul(d, inv) ==
    IF inv = FInf
       THEN IF d > 0 THEN FInf ELSE IF d < 0 THEN -FInf ELSE NaN
       ELSE d * inv

\* Comparisons with NaN are false
FGt(a, b) == a # NaN /\ b # NaN /\ a > b
FLt(a, b) == a # NaN /\ b # NaN /\ a < b

\* Index<bool> for AABB: true selects max
Corner(box, isMax) == IF isMax THEN box.max ELSE box.min

\* Vec3::ONE / ray.dir for a unit direction along an axis
InvDir(dir) == [i \in 1..3 |-> IF dir[i] = 0 THEN FInf ELSE dir[i]]
DirIsNeg(inv_dir) == [i \in 1..3 |-> inv_dir[i] < 0]

\* AABB::intersects: the slab test
intersects(box, r, ray_tmax, inv_ray_dir, dir_is_neg) ==
    LET tmin0 == FMul(Corner(box, dir_is_neg[X])[X] - r.orig[X], inv_ray_dir[X])
        tmax0x == FMul(Corner(box, ~dir_is_neg[X])[X] - r.orig[X], inv_ray_dir[X])
        tymin == FMul(Corner(box, dir_is_neg[Y])[Y] - r.orig[Y], inv_ray_dir[Y])
        tymax == FMul(Corner(box, ~dir_is_neg[Y])[Y] - r.orig[Y], inv_ray_dir[Y])
    IN IF FGt(tmin0, tymax) \/ FGt(tymin, tmax0x) THEN FALSE
       ELSE
         LET tmin1 == IF FGt(tymin, tmin0) THEN tymin ELSE tmin0
             tmax1 == IF FLt(tymax, tmax0x) THEN tymax ELSE tmax0x
             tzmin == FMul(Corner(box, dir_is_neg[Z])[Z] - r.orig[Z], inv_ray_dir[Z])
             tzmax == FMul(Corner(box, ~dir_is_neg[Z])[Z] - r.orig[Z], inv_ray_dir[Z])
         IN IF FGt(tmin1, tzmax) \/ FGt(tzmin, tmax1) THEN FALSE
            ELSE
              LET tmin2 == IF FGt(tzmin, tmin1) THEN tzmin ELSE tmin1
                  tmax2 == IF FLt(tzmax, tmax1) THEN tzmax ELSE tmax1
              IN FLt(tmin2, ray_tmax) /\ FGt(tmax2, 0)

\* ----------------------------------------------------------------- Sphere
\* The largest s with s * s <= n
RECURSIVE ISqrtFrom(_, _)
ISqrtFrom(n, s) == IF (s + 1) * (s + 1) > n THEN s ELSE ISqrtFrom(n, s + 1)
ISqrt(n) == ISqrtFrom(n, 0)

\* Sphere::aabb
SphereAabb(sp) == AABBNew(Vec3Sub(sp.center, Splat(sp.radius)),
                          Vec3Sub(sp.center, Splat(-sp.radius)))

\* Sphere::hit: <<>> for None, <<t>> for Some(hit at distance t).  The smaller
\* root is returned whatever its sign.
SphereHit(sp, r) ==
    LET oo == Vec3Sub(r.orig, sp.center)
        a == Dot(r.dir, r.dir)
        half_b == Dot(r.dir, oo)
        c == Dot(oo, oo) - sp.radius * sp.radius
        discriminant == half_b * half_b - a * c
    IN IF discriminant < 0 THEN <<>>
       ELSE LET t0 == (-half_b + ISqrt(discriminant)) \div a
                t1 == (-half_b - ISqrt(discriminant)) \div a
            IN <<Min(t0, t1)>>

\* ------------------------------------------------------------ Bvh::build
SAH_BUCKETS == 12
MAX_PRIMS_IN_NODE == 4
SPLIT_COUNT == SAH_BUCKETS - 1

\* BvhPrimitive::new
BvhPrimitive(id, box) == [id |-> id, aabb |-> box]

\* BuildBvhNode::new_leaf / new_interior; an Option<Box<..>> child is a
\* sequence of at most one node
BuildLeaf(box, first_prim_offset, primitive_count) ==
    [aabb |-> box, split_axis |-> X, first_prim_offset |-> first_prim_offset,
     primitive_count |-> primitive_count, child_l |-> <<>>, child_r |-> <<>>]

BuildInteriorLeftBox(split_axis, child_l, child_r) ==
    [aabb |-> child_l.aabb, split_axis |-> split_axis,
     first_prim_offset |-> 0, primitive_count |-> 0,
     child_l |-> <<child_l>>, child_r |-> <<child_r>>]

BuildInterior(split_axis, child_l, child_r) ==
    [aabb |-> union_aabb(child_l.aabb, child_r.aabb), split_axis |-> split_axis,
     first_prim_offset |-> 0, primitive_count |-> 0,
     child_l |-> <<child_l>>, child_r |-> <<child_r>>]

\* <[T]>::swap
Swap(q, i, j) ==
    [k \in 1..Len(q) |-> IF k = i THEN q[j] ELSE IF k = j THEN q[i] ELSE q[k]]

\* build_recursive, lines 213-219: the bucket of a primitive's centroid.
\* offset_of divides only when max > min.
BucketIndex(c, lo, hi) ==
    IF hi > lo
       THEN IF (SAH_BUCKETS * (c - lo)) \div (hi - lo) = SAH_BUCKETS
               THEN SAH_BUCKETS - 1
               ELSE (SAH_BUCKETS * (c - lo)) \div (hi - lo)
       ELSE SAH_BUCKETS * (c - lo)

BucketOf(prim, centroids_aabb, split_axis) ==
    BucketIndex(center(prim.aabb)[split_axis], centroids_aabb.min[split_axis],
                centroids_aabb.max[split_axis])

\* BvhSahBucket::new_emnpty
NewEmptyBucket == [count |-> 0, aabb |-> EMPTY]

\* lines 221-222 and the running count_below / aabb_below, count_above /
\* aabb_above: one more box, or one more bucket, counted in
AddBox(bucket, box) ==
    [count |-> bucket.count + 1, aabb |-> union_aabb(bucket.aabb, box)]

AddBucket(acc, bucket) ==
    [count |-> acc.count + bucket.count, aabb |-> union_aabb(acc.aabb, bucket.aabb)]

\* lines 211-223: the buckets after the primitives from position k on are
\* added; bucket b of the code is buckets[b + 1]
RECURSIVE FillBuckets(_, _, _, _, _)
FillBuckets(prims, k, cb, axis, buckets) ==
    IF k > Len(prims) THEN buckets
    ELSE FillBuckets(prims, k + 1, cb, axis,
                     [buckets EXCEPT ![BucketOf(prims[k], cb, axis) + 1] =
                                        AddBox(@, prims[k].aabb)])

\* lines 228-234: buckets 0..i, and lines 236-242: buckets i..SPLIT_COUNT
RECURSIVE Below(_, _)
Below(buckets, i) ==
    IF i < 0 THEN NewEmptyBucket ELSE AddBucket(Below(buckets, i - 1), buckets[i + 1])

RECURSIVE Above(_, _)
Above(buckets, i) ==
    IF i > SPLIT_COUNT THEN NewEmptyBucket
    ELSE AddBucket(Above(buckets, i + 1), buckets[i + 1])

SideCost(side) == side.count * area(side.aabb)

\* costs, lines 226-242: costs[i] of the code is Costs(buckets)[i + 1]
Costs(buckets) ==
    [s \in 1..SPLIT_COUNT |-> SideCost(Below(buckets, s - 1)) + SideCost(Above(buckets, s))]

\* Iterator::min_by, lines 244-248: the first of the smallest costs
MinCostSplitBucket(costs) ==
    CHOOSE i \in 0..(SPLIT_COUNT - 1) :
        /\ \A j \in 0..(SPLIT_COUNT - 1) : costs[i + 1] <= costs[j + 1]
        /\ \A j \in 0..(i - 1) : costs[j + 1] > costs[i + 1]

\* line 253: split when the slice is too large for a leaf or the split is
\* cheaper: 0.5 + cost / area < len, cleared of its fractions (area > 0 here)
ShouldSplit(len, cost, boxArea) ==
    (len > MAX_PRIMS_IN_NODE) \/ (boxArea + 2 * cost < 2 * len * boxArea)

\* Iterator::partition_in_place: swap the first element failing the predicate
\* with the last one satisfying it until the two scans meet; inLow[k] tells
\* whether the element now at k satisfies it.  i is the front scan's next
\* position, j the back scan's last one.
RECURSIVE PartitionFront(_, _, _, _, _)
RECURSIVE PartitionBack(_, _, _, _, _, _)
PartitionFront(q, inLow, i, j, true_count) ==
    IF i > j THEN [seq |-> q, mid |-> true_count]
    ELSE IF inLow[i] THEN PartitionFront(q, inLow, i + 1, j, true_count + 1)
    ELSE PartitionBack(q, inLow, i, i + 1, j, true_count)

PartitionBack(q, inLow, head, i, j, true_count) ==
    IF i > j THEN [seq |-> q, mid |-> true_count]
    ELSE IF inLow[j]
         THEN PartitionFront(Swap(q, head, j), Swap(inLow, head, j), i, j - 1,
                             true_count + 1)
    ELSE PartitionBack(q, inLow, head, i, j - 1, true_count)

partition_in_place(prims, cb, axis, split_bucket) ==
    PartitionFront(prims,
                   [k \in 1..Len(prims) |-> BucketOf(prims[k], cb, axis) <= split_bucket],
                   1, Len(prims), 0)

\* select_nth_unstable_by(1, ..) on two elements: the larger centroid last
SelectNthOfTwo(prims, axis) ==
    IF center(prims[1].aabb)[axis] > center(prims[2].aabb)[axis]
       THEN Swap(prims, 1, 2)
       ELSE prims

\* create_leaf_node, lines 180-186
CreateLeafAtZero(prims, box, ordered, total) ==
    [node |-> BuildLeaf(box, 0, Len(prims)),
     ordered |-> ordered \o [k \in 1..Len(prims) |-> prims[k].id],
     total |-> total]

CreateLeaf(prims, box, ordered, total) ==
    [node |-> BuildLeaf(box, Len(ordered), Len(prims)),
     ordered |-> ordered \o [k \in 1..Len(prims) |-> prims[k].id],
     total |-> total]

\* build_recursive: the node built over the slice bvh_primitives, with the
\* grown ordered_primitives and total_nodes.  The steps of the function
\* follow, each handing its locals to the next.
RECURSIVE build_recursive(_, _, _)

JoinChildrenLeftTotal(l, r, split_axis) ==
    [node |-> BuildInterior(split_axis, l.node, r.node),
     ordered |-> r.ordered,
     total |-> l.total]

\* lines 276-281: the right child after the left one, and the interior node
JoinChildren(l, r, split_axis) ==
    [node |-> BuildInterior(split_axis, l.node, r.node),
     ordered |-> r.ordered,
     total |-> r.total]

BuildRight(l, right_prims, split_axis) ==
    JoinChildren(l, build_recursive(right_prims, l.ordered, l.total), split_axis)

BuildChildren(prims, mid, ordered, total, split_axis) ==
    BuildRight(build_recursive(SubSeq(prims, 1, mid), ordered, total),
               SubSeq(prims, mid + 1, Len(prims)), split_axis)

BuildPartitioned(parted, ordered, total, split_axis) ==
    BuildChildren(parted.seq, parted.mid, ordered, total, split_axis)

\* lines 250-273: split at the cheapest bucket, or make a leaf
SahSplit(prims, ordered, total, box, cb, split_axis, costs, min_cost_split_bucket) ==
    IF ShouldSplit(Len(prims), costs[min_cost_split_bucket + 1], area(box))
       THEN BuildPartitioned(partition_in_place(prims, cb, split_axis,
                                                min_cost_split_bucket),
                             ordered, total, split_axis)
       ELSE CreateLeaf(prims, box, ordered, total)

SahCosts(prims, ordered, total, box, cb, split_axis, costs) ==
    SahSplit(prims, ordered, total, box, cb, split_axis, costs, MinCostSplitBucket(costs))

\* lines 197-211: the median split of two primitives, or the SAH split
SplitAlong(prims, ordered, total, box, cb, split_axis) ==
    IF Len(prims) <= 2
       THEN BuildChildren(SelectNthOfTwo(prims, split_axis), Len(prims) \div 2,
                          ordered, total, split_axis)
       ELSE SahCosts(prims, ordered, total, box, cb, split_axis,
                     Costs(FillBuckets(prims, 1, cb, split_axis,
                                       [b \in 1..SAH_BUCKETS |-> NewEmptyBucket])))

\* lines 192-199
SplitByCentroids(prims, ordered, total, box, centroids_aabb) ==
    IF is_empty(centroids_aabb)
       THEN CreateLeaf(prims, box, ordered, total)
       ELSE SplitAlong(prims, ordered, total, box, centroids_aabb,
                       max_axis(centroids_aabb))

\* lines 188-195
LeafOrInterior(prims, ordered, total, box) ==
    IF area(box) = 0 \/ Len(prims) = 1
       THEN CreateLeaf(prims, box, ordered, total)
       ELSE SplitByCentroids(prims, ordered, total, box,
                             UnionPoints([k \in 1..Len(prims) |-> center(prims[k].aabb)]))

\* lines 175-178
build_recursive(bvh_primitives, ordered_primitives, total_nodes) ==
    LeafOrInterior(bvh_primitives, ordered_primitives, total_nodes + 1,
                   UnionAll([k \in 1..Len(bvh_primitives) |-> bvh_primitives[k].aabb]))

\* LinearBvhNode::new_leaf / new_interior
LinearLeaf(box, primitive_offset, primitive_count) ==
    [aabb |-> box, primitive_offset_or_second_child_offset |-> primitive_offset,
     primitive_count |-> primitive_count, split_axis |-> X]

LinearInterior(box, second_child_offset, axis) ==
    [aabb |-> box, primitive_offset_or_second_child_offset |-> second_child_offset,
     primitive_count |-> 0, split_axis |-> axis]

\* flatten_inner: flat_nodes with the subtree of node appended in depth-first
\* order, and the number of nodes appended.  Node i of the Vec is nodes[i + 1].
\* lines 161-162: the index patched into the interior node once the left
\* subtree has been emitted
SecondChildOffsetUnpatched(idx, children_count) == 0
SecondChildOffset(idx, children_count) == idx + children_count + 1

RECURSIVE flatten_inner(_, _)
flatten_inner(node, flat_nodes) ==
    IF node.primitive_count > 0
       THEN [nodes |-> Append(flat_nodes,
                              LinearLeaf(node.aabb, node.first_prim_offset,
                                         node.primitive_count)),
             count |-> 1]
    ELSE
      LET idx == Len(flat_nodes)
          pushed == Append(flat_nodes, LinearInterior(node.aabb, 0, node.split_axis))
          l == flatten_inner(node.child_l[1], pushed)
          patched == [l.nodes EXCEPT ![idx + 1].primitive_offset_or_second_child_offset =
                                         SecondChildOffset(idx, l.count)]
          r == flatten_inner(node.child_r[1], patched)
      IN [nodes |-> r.nodes, count |-> l.count + r.count + 1]

flatten(root, total_nodes) == flatten_inner(root, <<>>).nodes

\* sort_by_indices: the cycle-following permutation.  Positions are those of
\* the code plus one.
RECURSIVE SortCycle(_, _, _)
SortCycle(data, indices, current_idx) ==
    LET target_idx == indices[current_idx]
        marked == [indices EXCEPT ![current_idx] = current_idx]
    IN IF marked[target_idx] = target_idx
          THEN [data |-> data, indices |-> marked]
          ELSE SortCycle(Swap(data, current_idx, target_idx), marked, target_idx)

RECURSIVE SortFrom(_, _, _)
SortFrom(data, indices, idx) ==
    IF idx > Len(data) THEN data
    ELSE IF indices[idx] # idx
         THEN LET c == SortCycle(data, indices, idx)
              IN SortFrom(c.data, c.indices, idx + 1)
    ELSE SortFrom(data, indices, idx + 1)

sort_by_indices(data, indices) ==
    SortFrom(data, [k \in 1..Len(indices) |-> indices[k] + 1], 1)

\* Bvh::build: the linear nodes and the reordered primitive array
build(prims) ==
    LET bvh_primitives == [k \in 1..Len(prims) |-> BvhPrimitive(k - 1, SphereAabb(prims[k]))]
        built == build_recursive(bvh_primitives, <<>>, 0)
    IN [nodes |-> flatten(built.node, built.total),
        primitives |-> sort_by_indices(prims, built.ordered)]

\* Bvh::build, lines 17-31: the owned tree, the ordered ids and the node count
\* build_recursive leaves
BuildTree(prims) ==
    build_recursive([k \in 1..Len(prims) |-> BvhPrimitive(k - 1, SphereAabb(prims[k]))],
                    <<>>, 0)

\* ------------------------------------- Bvh::sort_by_indices, step by step
\* The permutations of 0..n-1 as index lists
IndexPermutations(n) ==
    { q \in [1..n -> 0..(n - 1)] : \A i, j \in 1..n : i # j => q[i] # q[j] }

\* line 50: indices[current_idx] = current_idx
Unmarked(ind, cur) == ind
Marked(ind, cur) == [ind EXCEPT ![cur + 1] = cur]

NoSort ==
    /\ sort_input = <<<<>>, <<>>>>
    /\ sort_data = <<>>
    /\ sort_indices = <<>>
    /\ sort_idx = 0
    /\ sort_current_idx = 0
    /\ sort_pc = "none"

\* lines 45-47: the for loop's next idx; a position that is not yet in place
\* starts a cycle
SortFor ==
    /\ sort_pc = "for"
    /\ IF sort_idx >= Len(sort_data)
          THEN /\ sort_pc' = "done"
               /\ UNCHANGED <<sort_idx, sort_current_idx>>
          ELSE IF sort_indices[sort_idx + 1] # sort_idx
                  THEN /\ sort_current_idx' = sort_idx
                       /\ sort_pc' = "loop"
                       /\ UNCHANGED sort_idx
                  ELSE /\ sort_idx' = sort_idx + 1
                       /\ UNCHANGED <<sort_current_idx, sort_pc>>
    /\ UNCHANGED <<sort_input, sort_data, sort_indices>>
    /\ UNCHANGED poolVars
    /\ UNCHANGED bvhVars
    /\ UNCHANGED unionVars
    /\ UNCHANGED sceneVars

\* lines 48-56: one iteration of the inner loop
SortLoop ==
    /\ sort_pc = "loop"
    /\ LET target_idx == sort_indices[sort_current_idx + 1]
       IN /\ sort_indices' = Marked(sort_indices, sort_current_idx)
          /\ IF Marked(sort_indices, sort_current_idx)[target_idx + 1] = target_idx
                THEN /\ sort_idx' = sort_idx + 1
                     /\ sort_pc' = "for"
                     /\ UNCHANGED <<sort_data, sort_current_idx>>
                ELSE /\ sort_data' = Swap(sort_data, sort_current_idx + 1, target_idx + 1)
                     /\ sort_current_idx' = target_idx
                     /\ UNCHANGED <<sort_idx, sort_pc>>
    /\ UNCHANGED sort_input
    /\ UNCHANGED poolVars
    /\ UNCHANGED bvhVars
    /\ UNCHANGED unionVars
    /\ UNCHANGED sceneVars

SortNext ==
    \/ SortFor
    \/ SortLoop

\* -------------------------------------------------------- Bvh::intersect
\* The length of nodes_to_visit (bvh.rs:72)
STACK_SIZE == 64

Sphere(c, r) == [center |-> c, radius |-> r]

\* TaggedPtr<Primitive>::intersect: the shape's hit as a HitInfo
PrimitiveIntersect(prim, r) ==
    LET h == SphereHit(prim, r)
    IN IF h = <<>> THEN <<>>
       ELSE <<[t |-> h[1],
               pos |-> <<r.orig[1] + r.dir[1] * h[1], r.orig[2] + r.dir[2] * h[1],
                         r.orig[3] + r.dir[3] * h[1]>>]>>

\* bvh.rs:82-88: the scan of a leaf's primitives from position k (of the code)
\* up to end - 1; every hit replaces tmax and the closest hit
RECURSIVE LeafScan(_, _, _, _)
LeafScan(k, end, tm, closest) ==
    IF k >= end THEN [tmax |-> tm, closest |-> closest]
    ELSE LET hit == PrimitiveIntersect(primitives[k + 1], ray)
         IN IF hit # <<>>
               THEN LeafScan(k + 1, end, hit[1].t, hit)
               ELSE LeafScan(k + 1, end, tm, closest)

\* The scenes: up to MaxPrims different spheres, in any order.  Two are
\* concentric, others overlap or touch, one lies off the x axis.
SpherePool ==
    { Sphere(<<0, 0, 0>>, 1), Sphere(<<0, 0, 0>>, 2), Sphere(<<4, 0, 0>>, 2),
      Sphere(<<3, 0, 0>>, 1), Sphere(<<0, 4, 0>>, 1), Sphere(<<-2, 0, 2>>, 2) }

Scenes ==
    UNION { { q \in [1..n -> SpherePool] : \A i, j \in 1..n : i # j => q[i] # q[j] }
            : n \in 1..MaxPrims }

\* The rays: from a lattice point along an axis, in either direction
RayCoords == {-4, 0, 2}
AxisDirs == { <<1, 0, 0>>, <<-1, 0, 0>>, <<0, 1, 0>>, <<0, -1, 0>>, <<0, 0, 1>>, <<0, 0, -1>> }
Rays == { [orig |-> <<x, y, z>>, dir |-> d] : x, y, z \in RayCoords, d \in AxisDirs }
TMaxes == {FInf, 3}

NoRay == [orig |-> <<0, 0, 0>>, dir |-> <<1, 0, 0>>]
EmptyStack == [i \in 0..(STACK_SIZE - 1) |-> 0]

BvhIdle ==
    /\ primitives = <<>>
    /\ nodes = <<>>
    /\ ray = NoRay
    /\ tmax_arg = 0
    /\ tmax = 0
    /\ current_node_index = 0
    /\ to_visit_offset = 0
    /\ nodes_to_visit = EmptyStack
    /\ closest_hitinfo = <<>>
    /\ bpc = "init"
    /\ visited = <<>>

\* Bvh::build, lines 16-42
Build ==
    /\ bpc = "init"
    /\ scene # <<>>
    /\ LET b == build(scene)
       IN /\ nodes' = b.nodes
          /\ primitives' = b.primitives
    /\ bpc' = "built"
    /\ UNCHANGED <<scene, ray, tmax_arg, tmax, current_node_index, to_visit_offset,
                   nodes_to_visit, closest_hitinfo, visited>>
    /\ UNCHANGED poolVars
    /\ UNCHANGED sortVars
    /\ UNCHANGED unionVars
    /\ UNCHANGED sceneVars

\* Bvh::intersect, lines 61-74: a call on the built BVH, and its locals
Intersect ==
    /\ bpc = "built"
    /\ \E r \in Rays, tm \in TMaxes :
          /\ ray' = r
          /\ tmax_arg' = tm
          /\ tmax' = tm
    /\ current_node_index' = 0
    /\ to_visit_offset' = 0
    /\ nodes_to_visit' = EmptyStack
    /\ closest_hitinfo' = <<>>
    /\ bpc' = "loop"
    /\ visited' = <<0>>
    /\ UNCHANGED <<scene, primitives, nodes>>
    /\ UNCHANGED poolVars
    /\ UNCHANGED sortVars
    /\ UNCHANGED unionVars
    /\ UNCHANGED sceneVars

\* lines 90-95 and 117-122: take the next node off the stack, or leave the loop
Pop ==
    IF to_visit_offset = 0
       THEN /\ bpc' = "done"
            /\ UNCHANGED <<to_visit_offset, current_node_index, visited>>
       ELSE /\ to_visit_offset' = to_visit_offset - 1
            /\ current_node_index' = nodes_to_visit[to_visit_offset - 1]
            /\ visited' = Append(visited, nodes_to_visit[to_visit_offset - 1])
            /\ UNCHANGED bpc

PushNearChild(far, near) ==
    IF to_visit_offset < STACK_SIZE
       THEN /\ nodes_to_visit' = [nodes_to_visit EXCEPT ![to_visit_offset] = near]
            /\ to_visit_offset' = to_visit_offset + 1
            /\ current_node_index' = near
            /\ visited' = Append(visited, near)
            /\ UNCHANGED bpc
       ELSE /\ bpc' = "panicked"
            /\ UNCHANGED <<nodes_to_visit, to_visit_offset, current_node_index, visited>>

\* lines 105-114: push the far child, descend into the near one; a push past
\* the end of the array panics
Push(far, near) ==
    IF to_visit_offset < STACK_SIZE
       THEN /\ nodes_to_visit' = [nodes_to_visit EXCEPT ![to_visit_offset] = far]
            /\ to_visit_offset' = to_visit_offset + 1
            /\ current_node_index' = near
            /\ visited' = Append(visited, near)
            /\ UNCHANGED bpc
       ELSE /\ bpc' = "panicked"
            /\ UNCHANGED <<nodes_to_visit, to_visit_offset, current_node_index, visited>>

\* Bvh::intersect, lines 76-124: one iteration of the loop
IntersectStep ==
    /\ bpc = "loop"
    /\ LET node == nodes[current_node_index + 1]
           inv_dir == InvDir(ray.dir)
           dir_is_neg == DirIsNeg(inv_dir)
       IN IF intersects(node.aabb, ray, tmax, inv_dir, dir_is_neg)
             THEN IF node.primitive_count > 0
                     THEN LET offset == node.primitive_offset_or_second_child_offset
                              scan == LeafScan(offset, offset + node.primitive_count,
                                               tmax, closest_hitinfo)
                          IN /\ tmax' = scan.tmax
                             /\ closest_hitinfo' = scan.closest
                             /\ Pop
                             /\ UNCHANGED nodes_to_visit
                     ELSE /\ IF dir_is_neg[node.split_axis]
                                THEN Push(current_node_index + 1,
                                          node.primitive_offset_or_second_child_offset)
                                ELSE Push(node.primitive_offset_or_second_child_offset,
                                          current_node_index + 1)
                          /\ UNCHANGED <<tmax, closest_hitinfo>>
             ELSE /\ Pop
                  /\ UNCHANGED <<tmax, closest_hitinfo, nodes_to_visit>>
    /\ UNCHANGED <<scene, primitives, nodes, ray, tmax_arg>>
    /\ UNCHANGED poolVars
    /\ UNCHANGED sortVars
    /\ UNCHANGED unionVars
    /\ UNCHANGED sceneVars

\* Bvh::intersect, line 126: the call returns closest_hitinfo and its locals
\* are gone; the BVH is ready for the next call
IntersectReturn ==
    /\ bpc = "done"
    /\ bpc' = "built"
    /\ ray' = NoRay
    /\ tmax_arg' = 0
    /\ tmax' = 0
    /\ current_node_index' = 0
    /\ to_visit_offset' = 0
    /\ nodes_to_visit' = EmptyStack
    /\ closest_hitinfo' = <<>>
    /\ visited' = <<>>
    /\ UNCHANGED <<scene, primitives, nodes>>
    /\ UNCHANGED poolVars
    /\ UNCHANGED sortVars
    /\ UNCHANGED unionVars
    /\ UNCHANGED sceneVars

BvhNext ==
    \/ Build
    \/ Intersect
    \/ IntersectStep
    \/ IntersectReturn

\* ------------------------------------------------ AABB::union_aabb, a call
\* The boxes of the union runs: AABB::new over corner points with these
\* coordinates, and AABB::EMPTY
BoxCoords == {-1, 2}
BoxPoints == { <<x, y, z>> : x, y, z \in BoxCoords }
Boxes == { AABBNew(p, q) : p, q \in BoxPoints } \cup {EMPTY}

NoUnion ==
    /\ box_a = EMPTY /\ box_b = EMPTY /\ box_c = EMPTY /\ box_u = EMPTY
    /\ upc = "none"

\* self.union_aabb(b)
UnionCall ==
    /\ upc = "call"
    /\ box_u' = union_aabb(box_a, box_b)
    /\ upc' = "done"
    /\ UNCHANGED <<box_a, box_b, box_c>>
    /\ UNCHANGED poolVars
    /\ UNCHANGED bvhVars
    /\ UNCHANGED sortVars
    /\ UNCHANGED sceneVars

PoolNext ==
    \/ Coordinator
    \/ \E w \in Workers : Worker(w)

\* The pool runs hold no BVH, the BVH runs no pool
NoScene == scene = <<>> /\ BvhIdle

NoPool ==
    /\ width = 0 /\ height = 0 /\ max_index = 0 /\ index = 0
    /\ buffer = <<>> /\ written = <<>>
    /\ numThreads = 0
    /\ mpc = "none"
    /\ completed_threads = 0 /\ joined = 0 /\ frames = 0
    /\ start_notify_bus = <<>> /\ completion = <<>>
    /\ pc = <<>> /\ tile = <<>> /\ off = <<>> /\ sample = <<>>
    /\ handed = <<>> /\ nones = 0 /\ acks = <<>> /\ stopSent = FALSE

\* --------------------------------------------------- Scene::init, a call
NoSceneInit ==
    /\ scene_desc = <<>> /\ lights = <<>> /\ fixup_i = 0 /\ spc = "none"

\* A shape of the description: a sphere, with an area light or without
ShapeWithParams(sphere, area_light) == [shape |-> sphere, area_light |-> area_light]

\* Primitive::Light (light = <<light id>>) or Primitive::Simple (light = <<>>)
\* over the sphere
PrimitiveOf(sphere, light) ==
    [center |-> sphere.center, radius |-> sphere.radius, light |-> light]

\* Light::new(primitive id, radiance)
LightNew(primitive) == [primitive |-> primitive]

\* lines 84-110: one pass of `for shape_with_params in scene_desc.shapes`, the
\* sphere arm
SceneAddShape ==
    /\ spc = "shapes"
    /\ Len(scene) < Len(scene_desc)
    /\ LET sh == scene_desc[Len(scene) + 1]
       IN IF sh.area_light
             THEN /\ lights' = Append(lights, LightNew(Len(scene)))
                  /\ scene' = Append(scene, PrimitiveOf(sh.shape, <<Len(lights)>>))
             ELSE /\ scene' = Append(scene, PrimitiveOf(sh.shape, <<>>))
                  /\ UNCHANGED lights
    /\ spc' = IF Len(scene) + 1 = Len(scene_desc) THEN "build" ELSE "shapes"
    /\ UNCHANGED <<scene_desc, fixup_i>>
    /\ UNCHANGED <<primitives, nodes, ray, tmax_arg, tmax, current_node_index,
                   to_visit_offset, nodes_to_visit, closest_hitinfo, bpc, visited>>
    /\ UNCHANGED poolVars
    /\ UNCHANGED sortVars
    /\ UNCHANGED unionVars

\* line 114: Bvh::build(&mut primitives)
SceneBuildBvh ==
    /\ spc = "build"
    /\ LET b == build(scene)
       IN /\ nodes' = b.nodes
          /\ primitives' = b.primitives
    /\ bpc' = "built"
    /\ fixup_i' = 0
    /\ spc' = "fixup"
    /\ UNCHANGED <<scene_desc, lights>>
    /\ UNCHANGED <<scene, ray, tmax_arg, tmax, current_node_index, to_visit_offset,
                   nodes_to_visit, closest_hitinfo, visited>>
    /\ UNCHANGED poolVars
    /\ UNCHANGED sortVars
    /\ UNCHANGED unionVars

\* lines 119-126: lights[prim.light()].primitive = i for a light primitive
UnfixedLights(ls, prim, i) == ls
FixedLights(ls, prim, i) ==
    IF prim.light = <<>> THEN ls
    ELSE [ls EXCEPT ![prim.light[1] + 1] = [@ EXCEPT !.primitive = i]]

\* lines 117-128: one pass of the fixup loop
SceneFixup ==
    /\ spc = "fixup"
    /\ IF fixup_i < Len(primitives)
          THEN /\ lights' = FixedLights(lights, primitives[fixup_i + 1], fixup_i)
               /\ fixup_i' = fixup_i + 1
               /\ UNCHANGED spc
          ELSE /\ spc' = "done"
               /\ UNCHANGED <<lights, fixup_i>>
    /\ UNCHANGED scene_desc
    /\ UNCHANGED bvhVars
    /\ UNCHANGED poolVars
    /\ UNCHANGED sortVars
    /\ UNCHANGED unionVars

SceneNext == SceneAddShape \/ SceneBuildBvh \/ SceneFixup

\* The descriptions: up to MaxPrims different spheres, each with or without
\* an area light
SceneDescriptions ==
    UNION { { [k \in 1..Len(q) |-> ShapeWithParams(q[k], f[k])] : f \in [1..Len(q) -> BOOLEAN] }
            : q \in Scenes }

InitScene ==
    /\ scene_desc \in SceneDescriptions
    /\ lights = <<>> /\ fixup_i = 0 /\ spc = "shapes"
    /\ NoPool /\ NoScene /\ NoSort /\ NoUnion

SpecScene == InitScene /\ [][SceneNext]_vars

InitUnion ==
    /\ box_a \in Boxes /\ box_b \in Boxes /\ box_c \in Boxes
    /\ box_u = EMPTY
    /\ upc = "call"
    /\ NoPool /\ NoScene /\ NoSort /\ NoSceneInit

SpecUnion == InitUnion /\ [][UnionCall]_vars

Init == InitPool /\ NoScene /\ NoSort /\ NoUnion /\ NoSceneInit

Next == PoolNext

Spec == Init /\ [][Next]_vars

\* The threads are scheduled fairly: a worker that can take a step, and the
\* coordinating thread inside render_once or drop, eventually does.  Whether
\* another frame is started, or the pool dropped, is the caller's choice.
FairSpec ==
    /\ Init
    /\ [][Next]_vars
    /\ \A w \in 1..MaxThreads : WF_vars(w \in Workers /\ Worker(w))
    /\ WF_vars(RenderOnceBroadcast)
    /\ WF_vars(RenderOnceRecv)
    /\ WF_vars(DropJoin)

\* ------------------------------------------------- runs on small images
\* Images of at most one tile: 1, 4, 6, 7 and 8 pixels
SmallImages == {<<1, 1>>, <<2, 2>>, <<3, 2>>, <<7, 1>>, <<4, 2>>}

\* RenderThreads::new, line 36, in a build with overflow checks:
\* `width * height - TILE_SIZE` panics ("attempt to subtract with overflow")
\* before any thread is spawned
NewPanicked ==
    /\ \E img \in SmallImages :
          /\ img[1] * img[2] < TILE_SIZE
          /\ width = img[1]
          /\ height = img[2]
          /\ buffer = [c \in 0..(img[1] * img[2] - 1) |-> 0]
          /\ written = [c \in 0..(img[1] * img[2] - 1) |-> <<>>]
    /\ max_index = 0 /\ index = 0
    /\ numThreads = 0
    /\ mpc = "new_panicked"
    /\ completed_threads = 0 /\ joined = 0 /\ frames = 0
    /\ start_notify_bus = <<>> /\ completion = <<>>
    /\ pc = <<>> /\ tile = <<>> /\ off = <<>> /\ sample = <<>>
    /\ handed = <<>> /\ nones = 0 /\ acks = <<>> /\ stopSent = FALSE

\* Whether the subtraction is checked is the build's choice (overflow-checks)
InitSmall == (InitPoolOf(SmallImages) \/ NewPanicked) /\ NoScene /\ NoSort /\ NoUnion /\ NoSceneInit

SpecSmall == InitSmall /\ [][Next]_vars

\* ------------------------------------------------ runs with worker panics
\* A worker thread that panicked has unwound: its BusReader and its
\* completion_send clone are dropped and nothing spawns it again.
\* render, lines 203-213: ray_l panics, or one of the asserts on xyz fails,
\* before film.accumulate is reached for the pixel
WorkerPanic(w) ==
    /\ pc[w] = "pixel"
    /\ pc' = [pc EXCEPT ![w] = "panicked"]
    /\ UNCHANGED <<index, width, height, max_index, numThreads, mpc,
                   completed_threads, joined, start_notify_bus, completion, frames,
                   tile, off, sample, buffer, handed, nones, written, acks, stopSent>>
    /\ UNCHANGED bvhVars
    /\ UNCHANGED sortVars
    /\ UNCHANGED unionVars
    /\ UNCHANGED sceneVars

\* render_once, line 77: recv() is Err once the channel is empty and every
\* SyncSender is dropped (RenderThreads::new keeps none); unwrap() panics and
\* the coordinating thread unwinds
RenderOnceRecvErr ==
    /\ mpc = "collect"
    /\ ~AllCompleted(completed_threads)
    /\ completion = <<>>
    /\ \A w \in Workers : HasEnded(w)
    /\ mpc' = "unwind"
    /\ UNCHANGED <<index, width, height, max_index, numThreads, completed_threads,
                   joined, start_notify_bus, completion, frames, pc, tile, off,
                   sample, buffer, handed, nones, written, acks, stopSent>>
    /\ UNCHANGED bvhVars
    /\ UNCHANGED sortVars
    /\ UNCHANGED unionVars
    /\ UNCHANGED sceneVars

\* Drop, line 91, run by the unwinding: no BusReader is left to take the Stop
DropUnwinding ==
    /\ mpc = "unwind"
    /\ stopSent' = TRUE
    /\ joined' = 0
    /\ mpc' = "join"
    /\ UNCHANGED <<index, width, height, max_index, numThreads, completed_threads,
                   start_notify_bus, completion, frames, pc, tile, off, sample,
                   buffer, handed, nones, written, acks>>
    /\ UNCHANGED bvhVars
    /\ UNCHANGED sortVars
    /\ UNCHANGED unionVars
    /\ UNCHANGED sceneVars

PanicNext ==
    \/ Coordinator
    \/ RenderOnceRecvErr
    \/ DropUnwinding
    \/ \E w \in Workers : Worker(w)
    \/ \E w \in Workers : WorkerPanic(w)

\* The panic runs render an image of one tile and an image of two
PanicImages == {<<3, 3>>, <<5, 4>>}

InitPanic == InitPoolOf(PanicImages) /\ NoScene /\ NoSort /\ NoUnion /\ NoSceneInit

SpecPanic == InitPanic /\ [][PanicNext]_vars

\* Fair scheduling as in FairSpec; whether a render step panics is up to the
\* scene and the integrator
FairSpecPanic ==
    /\ SpecPanic
    /\ \A w \in 1..MaxThreads : WF_vars(w \in Workers /\ Worker(w))
    /\ WF_vars(RenderOnceBroadcast)
    /\ WF_vars(RenderOnceRecv)
    /\ WF_vars(RenderOnceRecvErr)
    /\ WF_vars(DropUnwinding)
    /\ WF_vars(DropJoin)

InitBvh == scene \in Scenes /\ BvhIdle /\ NoPool /\ NoSort /\ NoUnion /\ NoSceneInit

SpecBvh == InitBvh /\ [][BvhNext]_vars

\* The sort runs: every array of up to MaxPrims different elements with every
\* permutation of its positions, the lists Bvh::build passes among them
SortInputs ==
    { <<d, p>> : d \in Scenes \cup {<<>>}, p \in UNION { IndexPermutations(n) : n \in 0..MaxPrims } }

InitSort ==
    /\ sort_input \in { in \in SortInputs : Len(in[1]) = Len(in[2]) }
    /\ sort_data = sort_input[1]
    /\ sort_indices = sort_input[2]
    /\ sort_idx = 0
    /\ sort_current_idx = 0
    /\ sort_pc = "for"
    /\ scene = <<>> /\ BvhIdle
    /\ NoPool
    /\ NoUnion
    /\ NoSceneInit

SpecSort == InitSort /\ [][SortNext]_vars

\* The call is one thread's loop: it keeps stepping until it returns
FairSpecSort == SpecSort /\ WF_vars(SortNext)

\* ===================================================================== claims

\* ------------------------------------------------------------------ BVH
\* The hits a scan of every primitive finds for the ray of the call
ScanHits ==
    { PrimitiveIntersect(primitives[k], ray) : k \in 1..Len(primitives) } \ {<<>>}

Returned == bpc = "done"

\* C1: with tmax = infinity, Bvh::intersect reports a hit exactly when some
\* primitive's intersect reports one, and the reported hit has the smallest t
\* of all the primitives the ray hits.
C1_BvhMatchesLinearScan ==
    (Returned /\ tmax_arg = FInf) =>
        /\ (closest_hitinfo # <<>>) <=> (ScanHits # {})
        /\ closest_hitinfo # <<>> =>
              \A h \in ScanHits : closest_hitinfo[1].t <= h[1].t

\* C2: every hit Bvh::intersect returns has 0 <= t < tmax, for every ray and
\* every tmax the caller passes.
C2_HitWithinTmax ==
    (Returned /\ closest_hitinfo # <<>>) =>
        /\ 0 <= closest_hitinfo[1].t
        /\ closest_hitinfo[1].t < tmax_arg

\* ------------------------------------------------------------ render pool
Range(q) == {q[i] : i \in 1..Len(q)}

Waiting(w) == pc[w] = "recv" /\ start_notify_bus[w] = <<>>

\* The blocks [i, i + TILE_SIZE) of the indices handed out
Block(i) == i..(i + TILE_SIZE - 1)

\* C3: between two resets every index next_index returns is a multiple of the
\* tile size and no two calls return the same index, so the blocks handed out
\* are pairwise disjoint, whatever the interleaving of the workers.
C3_TilesUniqueAndAligned ==
    \A a, b \in 1..Len(handed) :
        /\ handed[a] % TILE_SIZE = 0
        /\ a # b => handed[a] # handed[b] /\ Block(handed[a]) \cap Block(handed[b]) = {}

\* Two workers hold tiles of the same frame at the same time.
C3_Witness ==
    /\ Len(handed) >= 2
    /\ \E v, w \in Workers : v # w /\ pc[v] = "pixel" /\ pc[w] = "pixel"

\* C4: within one frame no film cell is accumulated into more than once, by
\* the same or by another worker.
C4_CellWrittenAtMostOnce ==
    \A c \in Cells : Len(written[c]) <= 1

\* Two different workers have both written cells in the same frame.
C4_Witness ==
    \E c, d \in Cells : written[c] = <<1>> /\ written[d] = <<2>>

\* C5: when render_once returns, every pixel index in 0 .. width*height - 1 has
\* been accumulated into exactly once during that frame.
C5_FrameFullyDrawn ==
    (mpc = "idle" /\ frames > 0) => \A c \in Cells : Len(written[c]) = 1

\* C6: the acknowledgments of a frame come from distinct workers, and when
\* render_once returns every worker has served that frame's Render, has
\* acknowledged, and is waiting for the next signal with none pending.
C6_ReturnsAfterEveryWorkerAcked ==
    /\ \A a, b \in 1..Len(acks \o completion) :
          a # b => (acks \o completion)[a] # (acks \o completion)[b]
    /\ (mpc = "idle" /\ frames > 0) =>
          /\ Range(acks) = Workers
          /\ completion = <<>>
          /\ \A w \in Workers : Waiting(w) /\ sample[w] = frames

\* A second frame has returned, drawn by two workers.
C6_Witness ==
    /\ mpc = "idle" /\ frames = 2 /\ numThreads = 2
    /\ \E c, d \in Cells : written[c] = <<1>> /\ written[d] = <<2>>

\* C7: the cursor is reset only while every worker waits for a signal;
\* next_index is called only inside a frame, and the cursor it reads was
\* changed only by the next_index calls made since that frame's reset.
C7_ResetNeverConcurrent ==
    /\ [][(mpc = "idle" /\ mpc' = "broadcast" /\ index' = 0)
            => \A w \in Workers : Waiting(w)]_vars
    /\ [][(index' # index /\ mpc' = mpc) => mpc = "collect"]_vars
    /\ [](index = TILE_SIZE * (Len(handed) + nones))

\* The cursor has been reset for a second frame after workers moved it.
C7_Witness ==
    /\ mpc = "broadcast" /\ frames = 1 /\ index = 0
    /\ \A w \in Workers : sample[w] = 1

InFrame == mpc \in {"broadcast", "collect"}

\* C8: every render_once call returns; neither the broadcast nor a worker's
\* send ever finds its channel full.
C8_RenderOnceReturns ==
    /\ [](mpc = "broadcast" => BusHasRoom)
    /\ [](\A w \in Workers : pc[w] = "send" => Len(completion) < ChannelCapacity)
    /\ InFrame ~> (mpc = "idle")

\* Two workers are at their send while the second frame is collected.
C8_Witness ==
    /\ mpc = "collect" /\ frames = 1
    /\ \E v, w \in Workers : v # w /\ pc[v] = "send" /\ pc[w] = "send"

\* C9: after Stop is broadcast no worker claims a tile, writes the film or
\* acknowledges; every worker leaves its loop, and drop returns only after
\* all of them have ended.
C9_DropStopsEveryWorker ==
    /\ [][stopSent => /\ index' = index
                      /\ buffer' = buffer
                      /\ completion' = completion]_vars
    /\ [](mpc = "dropped" => \A w \in Workers : pc[w] = "exit")
    /\ (mpc = "join") ~> (mpc = "dropped")

\* The pool was dropped after a frame that two workers rendered.
C9_Witness ==
    /\ mpc = "dropped" /\ frames >= 1 /\ numThreads = 2
    /\ \A w \in Workers : pc[w] = "exit"

\* C10: after a reset the indices handed out are 0, 8, 16, ... in this order,
\* each below max_index; None is returned only once the blocks cover every
\* index below max_index; every frame hands out the same sequence.
C10_TilesCoverPrefix ==
    /\ \A k \in 1..Len(handed) :
          handed[k] = TILE_SIZE * (k - 1) /\ handed[k] < max_index
    /\ nones > 0 => TILE_SIZE * Len(handed) >= max_index
    /\ (mpc = "idle" /\ frames > 0) =>
          Len(handed) = (max_index + TILE_SIZE - 1) \div TILE_SIZE

\* A second frame has handed out three tiles and then None.
C10_Witness ==
    /\ frames = 1 /\ mpc = "collect" /\ Len(handed) = 3 /\ nones > 0

\* The cells of the tiles a frame of a w x h image hands out: a function of
\* the image size alone
CellsOfFrame(w, h) ==
    { c \in 0..(w * h - 1) :
        \E i \in 0..(w * h - 1) :
            i % TILE_SIZE = 0 /\ i < w * h - TILE_SIZE /\ c \in Block(i) }

WrittenCells == { c \in Cells : written[c] # <<>> }

FrameReturned == mpc = "idle" /\ frames >= 1

\* C11: the set of film cells written during one render_once() depends on the
\* image size only: it is the same for every worker count and for every
\* interleaving of the workers' tile claims.
C11_WrittenSetIndependentOfWorkers ==
    FrameReturned => WrittenCells = CellsOfFrame(width, height)

\* A frame of two workers has returned, and both wrote cells of it.
C11_Witness ==
    /\ FrameReturned
    /\ numThreads = 2
    /\ \E c, e \in Cells : written[c] = <<1>> /\ written[e] = <<2>>

\* ------------------------------------------------------ the built BVH
Built == bpc # "init"

\* The linear nodes by their index in the code's Vec
NodeIds == 0..(Len(nodes) - 1)
NodeAt(i) == nodes[i + 1]
IsLeaf(i) == NodeAt(i).primitive_count > 0
LeafIds == { i \in NodeIds : IsLeaf(i) }

\* The positions of the primitive array a leaf refers to
LeafRange(i) ==
    { p \in 0..(Len(scene) - 1) \cup
            NodeAt(i).primitive_offset_or_second_child_offset
              ..(NodeAt(i).primitive_offset_or_second_child_offset
                   + NodeAt(i).primitive_count - 1) :
        /\ p >= NodeAt(i).primitive_offset_or_second_child_offset
        /\ p < NodeAt(i).primitive_offset_or_second_child_offset
                 + NodeAt(i).primitive_count }

\* C12: after Bvh::build over N primitives the leaf ranges
\* [offset, offset + primitive_count) are pairwise disjoint and their union is
\* exactly 0..N-1.
C12_LeafRangesPartition ==
    Built =>
        /\ \A i, j \in LeafIds : i # j => LeafRange(i) \cap LeafRange(j) = {}
        /\ UNION { LeafRange(i) : i \in LeafIds } = 0..(Len(scene) - 1)

\* A built BVH of several leaves, one of them holding two primitives.
C12_Witness ==
    /\ Built
    /\ Cardinality(LeafIds) >= 2
    /\ \E i \in LeafIds : NodeAt(i).primitive_count = 2

\* ------------------------------------------------------ sort_by_indices
SortReturned == sort_pc = "done"

\* data'[i] = data[indices[i]], by the call's arguments
SortedByIndices ==
    \A i \in 1..Len(sort_data) :
        sort_data[i] = sort_input[1][sort_input[2][i] + 1]

\* The call is the one Bvh::build makes over these primitives
IsBuildCall ==
    /\ sort_input[1] # <<>>
    /\ sort_input[2] = BuildTree(sort_input[1]).ordered

\* Every original primitive is there exactly once
EachOnce(orig, now) ==
    /\ Len(now) = Len(orig)
    /\ \A k \in 1..Len(orig) : Cardinality({ i \in 1..Len(now) : now[i] = orig[k] }) = 1

\* Every leaf's range holds the primitives the leaf appended, in that order
LeavesHoldAppended(orig, now, ordered, linear) ==
    \A n \in 1..Len(linear) :
        \A p \in 0..(Len(orig) - 1) :
            (/\ linear[n].primitive_count > 0
             /\ p >= linear[n].primitive_offset_or_second_child_offset
             /\ p < linear[n].primitive_offset_or_second_child_offset
                      + linear[n].primitive_count)
                => now[p + 1] = orig[ordered[p + 1] + 1]

\* C13: for every array and every permutation of its positions
\* sort_by_indices terminates and leaves data'[i] = data[indices[i]]; after
\* Bvh::build the primitive array holds every original primitive exactly once
\* and each leaf's range holds the primitives the leaf appended, in order.
C13_SortByIndicesPermutes ==
    /\ [](SortReturned => SortedByIndices)
    /\ [](SortReturned /\ IsBuildCall =>
             /\ sort_data = build(sort_input[1]).primitives
             /\ EachOnce(sort_input[1], sort_data)
             /\ LeavesHoldAppended(sort_input[1], sort_data, sort_input[2],
                                   build(sort_input[1]).nodes))
    /\ <>SortReturned

\* The call Bvh::build makes has returned and has moved primitives.
C13_Witness ==
    /\ SortReturned
    /\ IsBuildCall
    /\ Len(sort_data) = 3
    /\ sort_data # sort_input[1]

\* The two children of the interior node i: the next node and the node at
\* its offset field
LeftChild(i) == i + 1
RightChild(i) == NodeAt(i).primitive_offset_or_second_child_offset

\* C14: in every built BVH each leaf's box contains the box of every
\* primitive in its range of the reordered array, each interior node's box is
\* the union of its two children's boxes, and the root box contains every
\* input primitive's box.
C14_BoxesContain ==
    Built =>
        /\ \A i \in LeafIds : \A p \in LeafRange(i) :
              fits_within(SphereAabb(primitives[p + 1]), NodeAt(i).aabb)
        /\ \A i \in NodeIds \ LeafIds :
              NodeAt(i).aabb = union_aabb(NodeAt(LeftChild(i)).aabb,
                                          NodeAt(RightChild(i)).aabb)
        /\ \A k \in 1..Len(scene) : fits_within(SphereAabb(scene[k]), NodeAt(0).aabb)

\* A built BVH with two interior nodes and three leaves.
C14_Witness ==
    /\ Built
    /\ Cardinality(NodeIds \ LeafIds) = 2
    /\ Cardinality(LeafIds) = 3

\* Scenes of up to MaxStacked spheres that share one center: the centroid box
\* of such a slice has min = max
MaxStacked == 5
StackedPool == { Sphere(<<0, 0, 0>>, 1), Sphere(<<0, 0, 0>>, 2) }
StackedScenes == UNION { [1..n -> StackedPool] : n \in 1..MaxStacked }

InitStacked == scene \in StackedScenes /\ BvhIdle /\ NoPool /\ NoSort /\ NoUnion /\ NoSceneInit

SpecStacked == InitStacked /\ [][BvhNext]_vars

\* C15: in every BVH built over a non-empty set of primitives every leaf holds
\* at least 1 and at most MAX_PRIMS_IN_NODE primitives.
C15_LeafSizeBounded ==
    Built =>
        \A i \in LeafIds :
            /\ NodeAt(i).primitive_count >= 1
            /\ NodeAt(i).primitive_count <= MAX_PRIMS_IN_NODE

\* The number of nodes of an owned build tree
RECURSIVE TreeSize(_)
TreeSize(node) ==
    IF node.child_l = <<>> THEN 1
    ELSE 1 + TreeSize(node.child_l[1]) + TreeSize(node.child_r[1])

\* The linear nodes reached from index i through the two links (i + 1 and the
\* offset field) form the owned tree under node: same boxes, primitive counts,
\* leaf offsets and split axes, the right child right after the left subtree
RECURSIVE SameTree(_, _)
SameTree(node, i) ==
    /\ i \in NodeIds
    /\ NodeAt(i).aabb = node.aabb
    /\ NodeAt(i).primitive_count = node.primitive_count
    /\ IF node.child_l = <<>>
          THEN /\ node.primitive_count > 0
               /\ NodeAt(i).primitive_offset_or_second_child_offset = node.first_prim_offset
          ELSE /\ NodeAt(i).split_axis = node.split_axis
               /\ RightChild(i) = i + 1 + TreeSize(node.child_l[1])
               /\ SameTree(node.child_l[1], LeftChild(i))
               /\ SameTree(node.child_r[1], RightChild(i))

\* C16: the linear array is the owned build tree in depth-first pre-order:
\* node 0 is the root, the length is the builder's total_nodes, an interior
\* node at i has its left child at i + 1 and its offset field is i + 1 + the
\* size of the left subtree, and the linked nodes carry the owned tree's
\* boxes, split axes, primitive counts and leaf offsets.  Bvh::intersect takes
\* &self, so the nodes are compared in the states between two calls.
C16_FlattenIsPreOrder ==
    bpc = "built" =>
        /\ Len(nodes) = BuildTree(scene).total
        /\ Len(nodes) = TreeSize(BuildTree(scene).node)
        /\ SameTree(BuildTree(scene).node, 0)

\* A built BVH with an interior node whose left subtree has several nodes.
C16_Witness ==
    /\ bpc = "built"
    /\ \E i \in NodeIds \ LeafIds : RightChild(i) > i + 2

\* build_test_bvh: the four spheres of the build test, in tenths of the
\* code's unit: (2,0,1) r 0.2, (2,0,-1) r 0.5, (-2,0,1) r 0.1, (-2,0,-1) r 0.3
TestScene ==
    << Sphere(<<20, 0, 10>>, 2), Sphere(<<20, 0, -10>>, 5),
       Sphere(<<-20, 0, 10>>, 1), Sphere(<<-20, 0, -10>>, 3) >>

InitTest == scene = TestScene /\ BvhIdle /\ NoPool /\ NoSort /\ NoUnion /\ NoSceneInit

SpecTest == InitTest /\ [][BvhNext]_vars

\* Node i is an interior node split on axis with the box of the spheres
\* members and its second child at index second
InteriorOver(i, axis, members, second) ==
    /\ NodeAt(i).primitive_count = 0
    /\ NodeAt(i).split_axis = axis
    /\ NodeAt(i).aabb = UnionAll([k \in 1..Len(members) |-> SphereAabb(members[k])])
    /\ RightChild(i) = second

\* Node i is a leaf of the one sphere sp, and its offset points at a primitive
\* of the reordered array with the leaf's box
LeafOf(i, sp) ==
    /\ NodeAt(i).primitive_count = 1
    /\ NodeAt(i).aabb = SphereAabb(sp)
    /\ NodeAt(i).primitive_offset_or_second_child_offset \in 0..(Len(primitives) - 1)
    /\ SphereAabb(primitives[NodeAt(i).primitive_offset_or_second_child_offset + 1])
         = NodeAt(i).aabb

\* C17: the four test spheres build into exactly 7 linear nodes: node 0
\* interior on X over all four boxes; node 1 interior on Z over the two x<0
\* spheres with leaves 2 (sphere at (-2,0,-1)) and 3 (sphere at (-2,0,1));
\* node 4 interior on Z over the two x>0 spheres with leaves 5 (sphere at
\* (2,0,-1)) and 6 (sphere at (2,0,1)); each leaf offset points at the
\* primitive with the leaf's box.
C17_TestSceneShape ==
    Built /\ scene = TestScene =>
        /\ Len(nodes) = 7
        /\ InteriorOver(0, X, TestScene, 4)
        /\ NodeAt(0).aabb = AABBNew(<<-23, -5, -15>>, <<25, 5, 12>>)
        /\ InteriorOver(1, Z, <<TestScene[3], TestScene[4]>>, 3)
        /\ LeafOf(2, TestScene[4])
        /\ LeafOf(3, TestScene[3])
        /\ InteriorOver(4, Z, <<TestScene[1], TestScene[2]>>, 6)
        /\ LeafOf(5, TestScene[2])
        /\ LeafOf(6, TestScene[1])

\* The test scene has been built.
C17_Witness == bpc = "built" /\ scene = TestScene /\ Len(nodes) = 7

\* C18: a BVH built over one primitive has exactly one node, a leaf with
\* primitive_count 1 and offset 0, and Bvh::intersect(ray, infinity) on it
\* returns what the primitive's own intersect(ray) returns, for every ray.
C18_SinglePrimitiveIsDirect ==
    /\ (Built /\ Len(scene) = 1) =>
          /\ Len(nodes) = 1
          /\ NodeAt(0).primitive_count = 1
          /\ NodeAt(0).primitive_offset_or_second_child_offset = 0
    /\ (Returned /\ Len(scene) = 1 /\ tmax_arg = FInf) =>
          closest_hitinfo = PrimitiveIntersect(primitives[1], ray)

\* The workers that have panicked, and those that have not
Panicked == { w \in Workers : pc[w] = "panicked" }
Survivors == Workers \ Panicked

\* C19: a panic in a worker's render step ends that worker only and is not
\* recovered: the worker is never restarted and sends no acknowledgment for
\* the frame; the surviving workers keep claiming tiles and each sends its
\* acknowledgment; the render_once() of the frame never returns normally,
\* fewer than N acknowledgments arrive and it stays blocked on the completion
\* channel while any worker survives.
C19_PanicNotRecovered ==
    /\ [][\A w \in Workers : pc[w] = "panicked" => pc'[w] = "panicked"]_vars
    /\ [](\A w \in Panicked : w \notin Range(acks) /\ w \notin Range(completion))
    /\ [][\A w \in Survivors : pc'[w] = "panicked" => pc[w] = "pixel"]_vars
    /\ (Panicked # {} /\ mpc = "collect")
          ~> (\A w \in Survivors : w \in Range(acks) /\ pc[w] = "recv")
    /\ [](Panicked # {} => /\ mpc \notin {"idle", "broadcast"}
                           /\ completed_threads < numThreads
                           /\ Len(acks) < numThreads)
    /\ [](Panicked # {} /\ Survivors # {} => mpc = "collect")
    /\ [][Panicked # {} => frames' = frames]_vars

\* One worker has panicked, the other has claimed a tile after that and its
\* acknowledgment has been received: render_once waits for a second one.
C19_Witness ==
    /\ numThreads = 2
    /\ Cardinality(Panicked) = 1
    /\ \A w \in Survivors : w \in Range(acks) /\ pc[w] = "recv"
    /\ mpc = "collect" /\ completion = <<>>
    /\ \E k \in 1..Len(handed) : handed[k] > 0

\* The tile index a worker holds: next_xy_coords split it into tile[w]
TileIndex(w) == width * tile[w][2] + tile[w][1]

\* C20: the pixel (x, y) a worker generates a ray for and accumulates into,
\* at offset k of the tile at index i, is the row-major coordinate of i + k:
\* y = (i + k) / width and x = (i + k) % width, so x < width and y < height,
\* for every image width.
C20_PixelIsRowMajor ==
    \A w \in Workers :
        pc[w] = "pixel" =>
            /\ PixelX(w) = (TileIndex(w) + off[w]) % width
            /\ PixelY(w) = (TileIndex(w) + off[w]) \div width
            /\ PixelX(w) < width
            /\ PixelY(w) < height

\* The traversal runs: the test scene, and the scenes that start with the unit
\* sphere at the origin and the sphere at (4,0,0)
WalkScenes ==
    {TestScene} \cup
    { q \in Scenes : /\ Len(q) >= 2
                     /\ q[1] = Sphere(<<0, 0, 0>>, 1)
                     /\ q[2] = Sphere(<<4, 0, 0>>, 2) }

InitWalk == scene \in WalkScenes /\ BvhIdle /\ NoPool /\ NoSort /\ NoUnion /\ NoSceneInit

\* A call is one thread's loop: it keeps stepping until it leaves the loop
FairSpecWalk == InitWalk /\ [][BvhNext]_vars /\ WF_vars(IntersectStep)

\* The indices waiting on the stack of the call
Pending == { nodes_to_visit[k] : k \in 0..(to_visit_offset - 1) }

\* The iteration asks for a pop: the node's box is missed, or it is a leaf
PopRequested ==
    \/ ~intersects(NodeAt(current_node_index).aabb, ray, tmax, InvDir(ray.dir),
                   DirIsNeg(InvDir(ray.dir)))
    \/ IsLeaf(current_node_index)

\* C22: Bvh::intersect terminates for every ray on every flattened tree: each
\* linear node becomes the current node at most once, the stack holds only
\* indices of nodes not visited yet, and the loop exits exactly when a pop is
\* requested while the stack is empty.
C22_IntersectTerminates ==
    /\ [](\A a, b \in 1..Len(visited) : a # b => visited[a] # visited[b])
    /\ [](bpc = "loop" =>
            /\ Pending \cap Range(visited) = {}
            /\ Cardinality(Pending) = to_visit_offset
            /\ Pending \subseteq NodeIds)
    /\ [][bpc = "loop" =>
            /\ bpc' # "panicked"
            /\ bpc' = "done" <=> (PopRequested /\ to_visit_offset = 0)]_vars
    /\ (bpc = "loop") ~> (bpc = "done")

\* A call has returned after visiting five nodes, one of them popped after a
\* node of higher index had been visited.
C22_Witness ==
    /\ Returned
    /\ Len(visited) = 5
    /\ \E k \in 1..4 : visited[k] > visited[k + 1]

\* C23: for an image of at most one tile (width * height <= 8)
\* FilmRenderState::new succeeds without underflow in max_index =
\* width * height - TILE_SIZE, and next_index signals exhaustion on its first
\* call and never returns an index.
C23_SmallImageExhausted ==
    width * height <= TILE_SIZE =>
        /\ mpc # "new_panicked"
        /\ max_index = width * height - TILE_SIZE
        /\ handed = <<>>

\* FilmRenderState::reset is the step of render_once that stores 0
IsReset == mpc = "idle" /\ mpc' = "broadcast"

\* C24: once next_index has returned None in a frame, every later call before
\* the next reset returns None too: the cursor only grows between resets, and
\* the fetch-and-adds after exhaustion never bring it back below max_index.
C24_ExhaustionIsSticky ==
    /\ [][IsReset \/ index' >= index]_vars
    /\ [](nones > 0 => IsExhausted(index))
    /\ [][(nones > 0 /\ ~IsReset) => /\ handed' = handed
                                     /\ nones' >= nones]_vars

\* Both workers have been told None in a frame that handed out tiles; the
\* cursor is two tiles past the last index handed out.
C24_Witness ==
    /\ nones = 2
    /\ handed # <<>>
    /\ index = handed[Len(handed)] + 3 * TILE_SIZE

\* C25: the pool never clears a film cell and values accumulate across
\* frames: a step changes at most the one cell width * y + x of the pixel a
\* worker renders, adding one contribution; after f completed render_once()
\* calls every cell of the tile stream holds exactly f contributions and
\* every other cell its initial zero.
C25_FilmAccumulates ==
    /\ [][\/ buffer' = buffer
          \/ \E w \in Workers :
                /\ pc[w] = "pixel"
                /\ BufferIndex(PixelX(w), PixelY(w)) \in Cells
                /\ buffer' = [buffer EXCEPT ![BufferIndex(PixelX(w), PixelY(w))] = @ + 1]]_vars
    /\ [](mpc = "idle" =>
            \A c \in Cells :
                buffer[c] = IF c \in CellsOfFrame(width, height) THEN frames ELSE 0)

\* Two frames are complete: some cells hold two contributions, the cells of
\* the last tile none.
C25_Witness ==
    /\ mpc = "idle" /\ frames = 2
    /\ \E c \in Cells : buffer[c] = 2
    /\ \E c \in Cells : buffer[c] = 0

\* C26: union_aabb is commutative, associative and idempotent, AABB::EMPTY is
\* its identity on both sides, the result contains both operands, and when
\* one operand encloses the other the union is the enclosing box.
C26_UnionAlgebra ==
    upc = "done" =>
        /\ box_u = union_aabb(box_b, box_a)
        /\ union_aabb(box_u, box_c) = union_aabb(box_a, union_aabb(box_b, box_c))
        /\ box_a = box_b => box_u = box_a
        /\ box_a = EMPTY => box_u = box_b
        /\ box_b = EMPTY => box_u = box_a
        /\ fits_within(box_a, box_u)
        /\ fits_within(box_b, box_u)
        /\ fits_within(box_b, box_a) => box_u = box_a
        /\ fits_within(box_a, box_b) => box_u = box_b

\* The union of two boxes neither of which encloses the other, followed by a
\* third box that is not inside it.
C26_Witness ==
    /\ upc = "done"
    /\ box_u # box_a /\ box_u # box_b
    /\ box_a # EMPTY /\ box_b # EMPTY
    /\ ~fits_within(box_c, box_u) /\ box_c # EMPTY

\* The primitives and the leaves under a node of the owned build tree
RECURSIVE PrimsUnder(_)
PrimsUnder(node) ==
    IF node.child_l = <<>> THEN node.primitive_count
    ELSE PrimsUnder(node.child_l[1]) + PrimsUnder(node.child_r[1])

RECURSIVE LeavesUnder(_)
LeavesUnder(node) ==
    IF node.child_l = <<>> THEN 1
    ELSE LeavesUnder(node.child_l[1]) + LeavesUnder(node.child_r[1])

\* Every split under node gave both recursive calls a non-empty slice, mid
\* being the size of the left one, and every leaf holds a primitive
RECURSIVE SplitsProper(_)
SplitsProper(node) ==
    IF node.child_l = <<>>
       THEN node.child_r = <<>> /\ node.primitive_count > 0
       ELSE /\ node.primitive_count = 0
            /\ 0 < PrimsUnder(node.child_l[1])
            /\ PrimsUnder(node.child_l[1]) < PrimsUnder(node)
            /\ SplitsProper(node.child_l[1])
            /\ SplitsProper(node.child_r[1])

\* C27: every split of build_recursive has 0 < mid < |S|, so both recursive
\* calls get a non-empty, strictly smaller slice; the recursion ends, no leaf
\* has primitive_count 0 (a node of count 0 is an interior node with two
\* children), and total_nodes = 2 * (number of leaves) - 1.
C27_SplitsAreProper ==
    bpc = "built" =>
        /\ SplitsProper(BuildTree(scene).node)
        /\ PrimsUnder(BuildTree(scene).node) = Len(scene)
        /\ BuildTree(scene).total = 2 * LeavesUnder(BuildTree(scene).node) - 1
        /\ Len(nodes) = 2 * Cardinality(LeafIds) - 1
        /\ \A i \in NodeIds \ LeafIds :
              LeftChild(i) \in NodeIds /\ RightChild(i) \in NodeIds

\* A tree whose root was split by the SAH partition into one primitive and
\* two, the two split again.
C27_Witness ==
    /\ bpc = "built"
    /\ Len(scene) = 3
    /\ Cardinality(LeafIds) = 3
    /\ \E i \in LeafIds : i = 1 \/ i = 4

\* C28: every Film::accumulate call of a worker addresses a buffer index
\* width * y + x below width * height, for every image for which next_index
\* hands out a tile and every pixel of the tile.
C28_WritesInBounds ==
    \A w \in Workers :
        pc[w] = "pixel" => BufferIndex(PixelX(w), PixelY(w)) < width * height

\* C29: a worker's sample counter grows by one per Render signal it serves:
\* at the start of every frame all workers hold the number of completed
\* render_once() calls, and within a frame every pixel is jittered in the
\* same stratum, whichever worker renders it.
C29_SampleInStep ==
    /\ [](mpc \in {"idle", "broadcast"} => \A w \in Workers : sample[w] = frames)
    /\ [](\A w \in Workers :
            pc[w] \in {"next", "pixel"} =>
                /\ sample[w] = frames
                /\ Stratum(w) = frames % (STRATA_SQRT * STRATA_SQRT))
    /\ [][\A w \in Workers :
            sample'[w] # sample[w] =>
                /\ sample'[w] = sample[w] + 1
                /\ pc[w] = "send" /\ pc'[w] = "recv"]_vars

\* Both workers render pixels of the second frame.
C29_Witness ==
    /\ frames = 1 /\ mpc = "collect"
    /\ numThreads = 2
    /\ \A w \in Workers : pc[w] = "pixel" /\ sample[w] = 1

\* The ids of the lights
LightIds == 0..(Len(lights) - 1)

\* C30: after Scene::init, for every light id l the primitive at
\* lights[l].primitive is the light primitive that stores the id l, whatever
\* permutation Bvh::build applied; distinct lights refer to distinct
\* positions.
C30_LightsPointAtTheirPrimitive ==
    spc = "done" =>
        /\ \A l \in LightIds :
              /\ lights[l + 1].primitive \in 0..(Len(primitives) - 1)
              /\ primitives[lights[l + 1].primitive + 1].light = <<l>>
        /\ \A l, m \in LightIds :
              l # m => lights[l + 1].primitive # lights[m + 1].primitive

\* Scene::init has returned for a scene with two lights, and the build moved
\* a light primitive away from the position it was pushed at.
C30_Witness ==
    /\ spc = "done"
    /\ Len(lights) >= 2
    /\ \E k \in 1..Len(scene) : scene[k].light # <<>> /\ primitives[k] # scene[k]
====
